---- MODULE Spec2Model ----
(***************************************************************************)
(* LiPow charger firmware: the Battery Monitor (Src/battery.c) and the     *)
(* Regulator Controller (Src/bq25703a_regulator.c) as two cooperating      *)
(* tasks.  Voltages are in millivolts, currents in milliamps, powers in    *)
(* milliwatts, temperatures in degrees Celsius.  Bitmasks are sets of bit  *)
(* positions.  An action of a task runs from one suspension point          *)
(* (vTaskDelay) to the next.                                               *)
(***************************************************************************)
EXTENDS Integers, Naturals, Sequences, FiniteSets, TLC

(***************************************************************************)
(* Configuration and thresholds.  The headers that set them (battery.h,    *)
(* bq25703a_regulator.h, main.h) are not part of the sources at hand; the  *)
(* values follow the specification's units and scenarios.                  *)
(***************************************************************************)
ENABLE_BALANCING == TRUE
FIXED_VOLTAGE_CHARGING == FALSE
ATTEMPT_UVP_RECOVERY == TRUE
NUM_SERIES == 4

BATTERY_ADC_MULTIPLIER == 1000
REG_ADC_MULTIPLIER == 1000

VOLTAGE_CONNECTED_THRESHOLD == 2000
MIN_CELL_VOLTAGE_SAFE_LIMIT == 2500
MIN_CELL_V_FOR_BALANCING == 3000
CELL_VOLTAGE_TO_ENABLE_CHARGING == 4180
CELL_OVER_VOLTAGE_ENABLE_DISCHARGE == 4200
CELL_OVER_VOLTAGE_DISABLE_CHARGING == 4220
CELL_DELTA_V_ENABLE_BALANCING == 15
CELL_BALANCING_HYSTERESIS_V == 10
CELL_BALANCING_SCALAR_MAX == 10

MAX_MCU_TEMP_C_FOR_OPERATION == 70
MCU_TEMP_C_RECOVERY == 60
TEMP_THROTTLE_THRESH_C == 40

MAX_CHARGE_CURRENT_MA == 6000
MAX_CHARGING_POWER == 60000
UVP_RECOVERY_CURRENT_MA == 128
CHARGE_TERM_CURRENT_MA == 100
BATTERY_DISCONNECT_THRESH == 4215

VBAT_ADC_SCALE == 64
VBAT_ADC_OFFSET == 2880
ICHG_ADC_SCALE == 64
VBUS_ADC_SCALE == 64
VBUS_ADC_OFFSET == 3200

CONNECTED == 1
NOT_CONNECTED == 0

ONE_S_BITMASK == {0}
TWO_S_BITMASK == {0, 1}
THREE_S_BITMASK == {0, 1, 2}

REGULATOR_COMMUNICATION_ERROR == "REGULATOR_COMMUNICATION_ERROR"
VOLTAGE_INPUT_ERROR == "VOLTAGE_INPUT_ERROR"
CELL_CONNECTION_ERROR == "CELL_CONNECTION_ERROR"
CELL_VOLTAGE_ERROR == "CELL_VOLTAGE_ERROR"
MCU_OVER_TEMP == "MCU_OVER_TEMP"

Faults ==
  { REGULATOR_COMMUNICATION_ERROR, VOLTAGE_INPUT_ERROR, CELL_CONNECTION_ERROR,
    CELL_VOLTAGE_ERROR, MCU_OVER_TEMP }

VARIABLES
  adc,                    \* analog sampler: cell, tap, pack voltages, temperature
  battery_state,          \* struct Battery
  cell_connected_bitmask, \* static ladder bitmask of battery.c
  error_state,            \* Fault Registry
  dis_gpio,               \* CELL_xS_DIS_EN outputs, as a set of cell indices
  toggles,                \* value changes of balancing_enabled in the last iteration
  pd,                     \* USB-PD collaborator: readiness, advertised current and power
  regulator,              \* struct Regulator
  precharging_state,      \* precharging_state
  hi_z,                   \* last Regulator_HI_Z command: 1 = high impedance
  chg,                    \* last charge-voltage and charge-current commands
  termination_counter,    \* static of Control_Charger_Output
  precharge_timeout,      \* static of vRegulator
  initial_precharge_wakeup, \* static of vRegulator
  ticks,                  \* local tick counter of the precharge and settle loops
  pc,                     \* suspension point of the Regulator Controller
  obs,                    \* what the Controller's current iteration has done so far
  request,                \* charge_current_limit as passed to Set_Charge_Current
  lease,                  \* xTxMutex_Regulator: the set of its holders
  hal,                    \* the I2C peripheral hi2c1: its state and error code
  xfer                    \* the bus call in progress, step by step

monVars == << adc, battery_state, cell_connected_bitmask, dis_gpio, toggles >>

ctlVars ==
  << regulator, precharging_state, hi_z, chg, termination_counter, precharge_timeout,
     initial_precharge_wakeup, ticks, pc, obs, request >>

busVars == << lease, hal, xfer >>

vars == << monVars, ctlVars, error_state, pd, busVars >>

(***************************************************************************)
(* Fault Registry                                                          *)
(***************************************************************************)
Set_Error_State(err, f) == err \cup {f}

Clear_Error_State(err, f) == err \ {f}

(***************************************************************************)
(* battery.c                                                               *)
(***************************************************************************)
Get_Cell_Voltage(a, i) == a.cell[i + 1]

\* The ladder probe: bit k is set iff tap k and cell k exceed the threshold.
LadderBitmask(a) ==
  { k \in 0..3 :
      /\ Get_Cell_Voltage(a, k) > VOLTAGE_CONNECTED_THRESHOLD
      /\ CASE k = 3 -> a.four_s > VOLTAGE_CONNECTED_THRESHOLD
           [] k = 2 -> a.three_s > VOLTAGE_CONNECTED_THRESHOLD
           [] k = 1 -> a.two_s > VOLTAGE_CONNECTED_THRESHOLD
           [] OTHER -> TRUE }

\* Cell-count inference from the ladder bitmask: [n, err].
CellCountMutGap(mask, err) ==
  IF 3 \in mask THEN [n |-> 4, err |-> Clear_Error_State(err, CELL_CONNECTION_ERROR)]
  ELSE IF 2 \in mask THEN [n |-> 3, err |-> Clear_Error_State(err, CELL_CONNECTION_ERROR)]
  ELSE IF 1 \in mask THEN [n |-> 2, err |-> Clear_Error_State(err, CELL_CONNECTION_ERROR)]
  ELSE [n |-> 0, err |-> Clear_Error_State(err, CELL_CONNECTION_ERROR)]

CellCount(mask, err) ==
  IF 3 \in mask
    THEN IF (mask \cap THREE_S_BITMASK) = THREE_S_BITMASK
           THEN [n |-> 4, err |-> Clear_Error_State(err, CELL_CONNECTION_ERROR)]
           ELSE [n |-> 0, err |-> Set_Error_State(err, CELL_CONNECTION_ERROR)]
  ELSE IF 2 \in mask
    THEN IF (mask \cap TWO_S_BITMASK) = TWO_S_BITMASK
           THEN [n |-> 3, err |-> Clear_Error_State(err, CELL_CONNECTION_ERROR)]
           ELSE [n |-> 0, err |-> Set_Error_State(err, CELL_CONNECTION_ERROR)]
  ELSE IF 1 \in mask
    THEN IF (mask \cap ONE_S_BITMASK) = ONE_S_BITMASK
           THEN [n |-> 2, err |-> Clear_Error_State(err, CELL_CONNECTION_ERROR)]
           ELSE [n |-> 0, err |-> Set_Error_State(err, CELL_CONNECTION_ERROR)]
  ELSE [n |-> 0, err |-> Clear_Error_State(err, CELL_CONNECTION_ERROR)]

\* Balance_Connection_State: [mask, n, bpc, err].
Balance_Connection_State(a, err) ==
  LET mask == LadderBitmask(a)
      cc == CellCount(mask, err)
  IN [ mask |-> mask,
       n |-> cc.n,
       bpc |-> IF cc.n > 1 THEN CONNECTED ELSE NOT_CONNECTED,
       err |-> cc.err ]

MCU_Temperature_Safety_CheckMutNoBand(err, temp) ==
  IF temp > MAX_MCU_TEMP_C_FOR_OPERATION
    THEN Set_Error_State(err, MCU_OVER_TEMP)
    ELSE Clear_Error_State(err, MCU_OVER_TEMP)

MCU_Temperature_Safety_Check(err, temp) ==
  IF temp > MAX_MCU_TEMP_C_FOR_OPERATION
    THEN Set_Error_State(err, MCU_OVER_TEMP)
  ELSE IF MCU_OVER_TEMP \in err /\ temp < MCU_TEMP_C_RECOVERY
    THEN Clear_Error_State(err, MCU_OVER_TEMP)
  ELSE err

\* Cell_Voltage_Safety_Check: [err, cov].
Cell_Voltage_Safety_Check(a, n, err) ==
  LET over == \E i \in 0..(n - 1) : Get_Cell_Voltage(a, i) > CELL_OVER_VOLTAGE_DISABLE_CHARGING
      under == \E i \in 0..(n - 1) : Get_Cell_Voltage(a, i) < MIN_CELL_VOLTAGE_SAFE_LIMIT
  IN [ err |-> IF under THEN Set_Error_State(err, CELL_VOLTAGE_ERROR)
                        ELSE Clear_Error_State(err, CELL_VOLTAGE_ERROR),
       cov |-> IF over THEN 1 ELSE 0 ]

\* min_cell_voltage / max_cell_voltage: cell 0, then cells 1..n-1.
MinCellVoltage(a, n) ==
  LET S == { Get_Cell_Voltage(a, i) : i \in {0} \cup 1..(n - 1) }
  IN CHOOSE v \in S : \A w \in S : v <= w

MaxCellVoltage(a, n) ==
  LET S == { Get_Cell_Voltage(a, i) : i \in {0} \cup 1..(n - 1) }
  IN CHOOSE v \in S : \A w \in S : v >= w

\* The balancing scalar is a ratio; ScalarDen is its denominator and
\* ScalarNum its numerator, so scalar = ScalarNum / ScalarDen >= 1.
ScalarDen == CELL_VOLTAGE_TO_ENABLE_CHARGING - MIN_CELL_V_FOR_BALANCING

ScalarNum(xt60, vmax) ==
  IF xt60 = CONNECTED
    THEN LET raw == CELL_BALANCING_SCALAR_MAX * (CELL_VOLTAGE_TO_ENABLE_CHARGING - vmax)
         IN IF raw < ScalarDen THEN ScalarDen ELSE raw
    ELSE ScalarDen

\* delta >= threshold * scalar, without division.
AtLeastScaled(delta, threshold, num) == delta * ScalarDen >= threshold * num

\* The two branches of lines 67-72 as the value balancing_enabled ends with.
BalancingLatch(en, vmin, vmax, num) ==
  IF AtLeastScaled(vmax - vmin, CELL_DELTA_V_ENABLE_BALANCING, num)
       /\ vmin > MIN_CELL_V_FOR_BALANCING /\ en = 0
    THEN 1
  ELSE IF (~AtLeastScaled(vmax - vmin, CELL_BALANCING_HYSTERESIS_V, num) /\ en = 1)
            \/ vmin < MIN_CELL_V_FOR_BALANCING
    THEN 0
  ELSE en

\* Lines 77-87: bits below number_of_cells are recomputed, the others kept.
BalanceBitmask(a, n, en, vmin, num, old) ==
  { i \in 0..3 :
      IF i < n
        THEN \/ en = 1 /\ AtLeastScaled(Get_Cell_Voltage(a, i) - vmin,
                                        CELL_BALANCING_HYSTERESIS_V, num)
             \/ Get_Cell_Voltage(a, i) >= CELL_OVER_VOLTAGE_ENABLE_DISCHARGE
        ELSE i \in old }

BalanceGate(bpc, err) == ENABLE_BALANCING /\ bpc = CONNECTED /\ err = {}

\* Balance_Battery: [en, mask, gpio, stores]; stores lists the values the
\* call assigns to balancing_enabled, in order.
Balance_Battery(a, b, err) ==
  IF BalanceGate(b.balance_port_connected, err)
    THEN LET vmin == MinCellVoltage(a, b.number_of_cells)
             vmax == MaxCellVoltage(a, b.number_of_cells)
             num == ScalarNum(b.xt60_connected, vmax)
             en == BalancingLatch(b.balancing_enabled, vmin, vmax, num)
             mask == BalanceBitmask(a, b.number_of_cells, en, vmin, num,
                                    b.cell_balance_bitmask)
         IN [ en |-> en, mask |-> mask, gpio |-> mask,
              stores |-> IF en # b.balancing_enabled THEN << en >> ELSE << >> ]
    ELSE [ en |-> 0, mask |-> b.cell_balance_bitmask, gpio |-> {},
           stores |-> << 0 >> ]

\* Lines 233-243.
RequiresCharging(a, xt60, bpc, n) ==
  IF xt60 = CONNECTED /\ bpc = CONNECTED
    THEN IF a.batt < n * CELL_VOLTAGE_TO_ENABLE_CHARGING THEN 1 ELSE 0
    ELSE 0

\* Balance_Battery is skipped while the regulator reports charging.
BalanceRuns(charging) == ENABLE_BALANCING /\ charging = 0

\* Battery_Connection_State: one Battery Monitor iteration on samples a,
\* with the regulator's charging status as read through its accessor.
Battery_Connection_State(a, b, mask0, err, gpio, charging) ==
  LET xt60 == IF a.batt > VOLTAGE_CONNECTED_THRESHOLD THEN CONNECTED ELSE NOT_CONNECTED
      bcs == IF ENABLE_BALANCING
               THEN Balance_Connection_State(a, err)
               ELSE [ mask |-> mask0, n |-> NUM_SERIES, bpc |-> CONNECTED,
                      err |-> Clear_Error_State(err, CELL_CONNECTION_ERROR) ]
      err1 == MCU_Temperature_Safety_Check(bcs.err, a.temp)
      cvs == IF ENABLE_BALANCING
               THEN Cell_Voltage_Safety_Check(a, bcs.n, err1)
               ELSE [ err |-> err1, cov |-> b.cell_over_voltage ]
      b1 == [ b EXCEPT !.xt60_connected = xt60,
                       !.balance_port_connected = bcs.bpc,
                       !.number_of_cells = bcs.n,
                       !.cell_over_voltage = cvs.cov ]
      ran == BalanceRuns(charging)
      bal == IF ran THEN Balance_Battery(a, b1, cvs.err)
                    ELSE [ en |-> b1.balancing_enabled, mask |-> b1.cell_balance_bitmask,
                           gpio |-> gpio, stores |-> << >> ]
  IN [ b |-> [ b1 EXCEPT !.balancing_enabled = bal.en,
                         !.cell_balance_bitmask = bal.mask,
                         !.requires_charging = RequiresCharging(a, xt60, bcs.bpc, bcs.n) ],
       mask |-> bcs.mask,
       err |-> cvs.err,
       gpio |-> bal.gpio,
       stores |-> bal.stores ]

(***************************************************************************)
(* bq25703a_regulator.c.  The operators below work on a record c holding   *)
(* the Controller's variables and the Fault Registry; an action applies    *)
(* the operators of the code between two suspension points, in order.      *)
(***************************************************************************)

\* Scaled stand-ins for precharge_timeout = 300, ticks = 20 and ticks = 12,
\* and for the 16 bits of termination_counter.
N_UVP_ATTEMPTS == 3
WAKEUP_TICKS == 2
PRECHARGE_TICKS == 1
SETTLE_TICKS == 4
TERM_COUNTER_BITS == 3

TermCounterModulus == 2 ^ TERM_COUNTER_BITS

\* ASSUME_EFFICIENCY = 0.9 as a ratio.
EFF_NUM == 9
EFF_DEN == 10

\* I2C_Transfer / I2C_Receive over the transfers of one stretch of code:
\* "ok", or "timeout" (the transport was not ready within I2C_TIMEOUT in one
\* of them: the fault is raised).  What a read returns is drawn separately.
BusOutcome == { "ok", "timeout" }

I2C_Transfer(c, bus) ==
  IF bus = "timeout"
    THEN [ c EXCEPT !.err = Set_Error_State(c.err, REGULATOR_COMMUNICATION_ERROR) ]
    ELSE c

\* obs.ev lists what the Controller has done since its last read of the
\* charge status, that read included.
Record(c, event) == [ c EXCEPT !.obs.ev = Append(@, event) ]

\* Regulator_HI_Z drives the ILIM_HIZ pin: no bus transfer is involved.
Regulator_HI_Z(c, hi_z_en) ==
  Record([ c EXCEPT !.hi_z = hi_z_en ], IF hi_z_en = 1 THEN "hiz_on" ELSE "hiz_off")

\* Query_Regulator_Connection: idok says whether both IDs read back right.
Query_Regulator_Connection(c, bus, idok) ==
  LET c1 == I2C_Transfer(c, bus)
  IN IF idok
       THEN [ c1 EXCEPT !.err = Clear_Error_State(c1.err, REGULATOR_COMMUNICATION_ERROR),
                        !.reg.connected = CONNECTED ]
       ELSE [ c1 EXCEPT !.err = Set_Error_State(c1.err, REGULATOR_COMMUNICATION_ERROR),
                        !.reg.connected = NOT_CONNECTED ]

\* Read_Charge_Status: status is the charging bit as it lands in data[1].
Read_Charge_Status(c, bus, status) ==
  [ I2C_Transfer(c, bus) EXCEPT !.reg.charging_status = status,
                                !.obs.ev = << "status" >> ]

\* The five sample reads of Regulator_Read_ADC (lines 286-301).
ReadSamples(c, bus, vbat_raw, ichg_raw, vbus_raw) ==
  [ Record(I2C_Transfer(c, bus), "adc") EXCEPT
      !.reg.vbat_voltage = (vbat_raw * VBAT_ADC_SCALE) + VBAT_ADC_OFFSET,
      !.reg.charge_current = ichg_raw * ICHG_ADC_SCALE,
      !.reg.vbus_voltage = (vbus_raw * VBUS_ADC_SCALE) + VBUS_ADC_OFFSET ]

\* Set_Charge_Current: clamp, store, encode in 64 mA steps, write.
ClampCurrentMutNone(charge_current_limit) == charge_current_limit

ClampCurrent(charge_current_limit) ==
  IF charge_current_limit > MAX_CHARGE_CURRENT_MA
    THEN MAX_CHARGE_CURRENT_MA
    ELSE charge_current_limit

\* A value stored in a uint8_t.
Uint8(x) == x % 256

\* Lines 369-375: charge_current_register_1_value is the upper byte of the
\* ChargeCurrent register, charge_current_register_2_value the lower one.
ChargeCurrentBytesMutLowBitsLost(charge_current) ==
  [ register_1 |-> Uint8(charge_current \div 4), register_2 |-> 0 ]

ChargeCurrentBytes(charge_current) ==
  IF charge_current >= 0 \/ charge_current <= 128
    THEN [ register_1 |-> Uint8(charge_current \div 4),
           register_2 |-> Uint8(charge_current * 64) ]
    ELSE [ register_1 |-> 0, register_2 |-> 0 ]

Set_Charge_Current(c, bus, charge_current_limit) ==
  LET limit == ClampCurrent(charge_current_limit)
      steps == IF limit # 0 THEN limit \div 64 ELSE 0
      charge_current == IF steps > 128 THEN 128 ELSE steps
      bytes == ChargeCurrentBytes(charge_current)
  IN [ Record(I2C_Transfer(c, bus), "current") EXCEPT
         !.reg.max_charge_current_ma = limit,
         !.chg.current_steps = charge_current,
         !.chg.current_register_1 = bytes.register_1,
         !.chg.current_register_2 = bytes.register_2 ]

\* Set_Charge_Voltage: the per-cell-count table, as millivolt sums of the
\* MAX_VOLT_ADD_x and MIN_VOLT_ADD_x bits it ORs together.
MaxChargeVoltageMv(number_of_cells) ==
  CASE number_of_cells = 1 -> 4096 + 64 + 32
    [] number_of_cells = 2 -> 8192 + 128 + 64 + 16
    [] number_of_cells = 3 -> 8192 + 4096 + 256 + 32 + 16
    [] number_of_cells = 4 -> 16384 + 256 + 128 + 32
    [] OTHER -> 0

MinSystemVoltageMv(number_of_cells) ==
  CASE number_of_cells = 1 -> 2048 + 512 + 256
    [] number_of_cells = 2 -> 4096 + 1024 + 512
    [] number_of_cells = 3 -> 8192 + 256
    [] number_of_cells = 4 -> 8192 + 2048 + 1024
    [] OTHER -> 1024

Set_Charge_Voltage(c, bus, number_of_cells) ==
  [ Record(I2C_Transfer(c, bus), "voltage") EXCEPT
      !.chg.max_charge_mv = MaxChargeVoltageMv(number_of_cells),
      !.chg.min_system_mv = MinSystemVoltageMv(number_of_cells) ]

\* power_scalar = 1 - (0.0333 * T - 1.66), clamped to [0, 1], in 1/10000.
PowerScalarDen == 10000

PowerScalarMutNoClamp(temperature) == 26600 - 333 * temperature

PowerScalar(temperature) ==
  LET raw == 26600 - 333 * temperature
  IN IF raw > PowerScalarDen THEN PowerScalarDen
     ELSE IF raw < 0 THEN 0
     ELSE raw

\* Lines 449-451.
ClampPower(charging_power_mw) ==
  IF charging_power_mw > MAX_CHARGING_POWER THEN MAX_CHARGING_POWER ELSE charging_power_mw

\* The scalar Calculate_Max_Charge_Power multiplies by (1 when it does not).
AppliedScalar(temperature) ==
  IF temperature > TEMP_THROTTLE_THRESH_C THEN PowerScalar(temperature) ELSE PowerScalarDen

\* Calculate_Max_Charge_Power: [undamped, scalar, power].
Calculate_Max_Charge_Power(vbus_voltage, max_input_current, max_input_power, temperature) ==
  LET p0 == (((vbus_voltage \div REG_ADC_MULTIPLIER) * max_input_current) * EFF_NUM) \div EFF_DEN
      p1 == ClampPower(p0)
      p2 == IF p1 > max_input_power THEN (max_input_power * EFF_NUM) \div EFF_DEN ELSE p1
      s == AppliedScalar(temperature)
  IN [ undamped |-> p2, scalar |-> s, temp |-> temperature,
       power |-> (p2 * s) \div PowerScalarDen ]

\* Line 503: power over whole volts of pack voltage.  Dividing by a pack
\* voltage below one volt gives infinity or NaN, whose conversion to
\* uint32_t is undefined: any of the values of the set may result (the
\* largest one stands for the values up to UINT32_MAX).
ChargingCurrents(power, battery_voltage) ==
  LET volts == battery_voltage \div BATTERY_ADC_MULTIPLIER
  IN IF volts = 0 THEN { 0, MAX_CHARGE_CURRENT_MA + 1, 2147483647 }
                  ELSE { power \div volts }

READY == "READY"
NOT_READY == "NOT_READY"
NO_USB_PD_SUPPLY == "NO_USB_PD_SUPPLY"

\* Line 494.
OutputGateMutNoFault(xt60, bpc, err, ready, cov) ==
  xt60 = CONNECTED /\ bpc = CONNECTED /\ ready = READY /\ cov = 0

OutputGate(xt60, bpc, err, ready, cov) ==
  xt60 = CONNECTED /\ bpc = CONNECTED /\ err = {} /\ ready = READY /\ cov = 0

\* termination_counter++ on a uint16_t.
IncrementCounter(counter) == (counter + 1) % TermCounterModulus

\* termination_counter > 3
TerminationReached(counter) == counter > 3

\* Lines 516-526: [c, pc].
Terminate(c, b) ==
  LET charge_current_meas_ma == (c.reg.charge_current * 1000) \div REG_ADC_MULTIPLIER
  IN IF b.requires_charging = 0 /\ charge_current_meas_ma < CHARGE_TERM_CURRENT_MA
       THEN LET c1 == [ c EXCEPT !.tc = IncrementCounter(c.tc),
                                 !.obs.qual = IF @ < 4 THEN @ + 1 ELSE @ ]
            IN IF TerminationReached(c1.tc)
                 THEN [ c |-> Regulator_HI_Z(c1, 1), pc |-> "term_delay" ]
                 ELSE [ c |-> c1, pc |-> "loop_delay" ]
       ELSE [ c |-> [ c EXCEPT !.tc = 0, !.obs.qual = 0 ],
              pc |-> "loop_delay" ]

\* Line 503 has called Calculate_Max_Charge_Power: env is its result.
RecordEnvelope(c, env) == Record([ c EXCEPT !.obs.env = env ], "envelope")

\* Lines 497-514, the gate of line 494 having passed: [c, pc].
EnableOutputMutHiZFirst(c, b, env, charging_current_ma, bus) ==
  LET cells == IF ENABLE_BALANCING THEN b.number_of_cells ELSE NUM_SERIES
      c0 == Regulator_HI_Z(c, 0)
      c1 == RecordEnvelope(Set_Charge_Voltage(c0, bus, cells), env)
      c3 == Set_Charge_Current(c1, bus, charging_current_ma)
  IN IF c3.reg.vbat_voltage > BATTERY_DISCONNECT_THRESH * b.number_of_cells
       THEN [ c |-> Regulator_HI_Z(c3, 1), pc |-> "probe_delay" ]
       ELSE Terminate(c3, b)

EnableOutput(c, b, env, charging_current_ma, bus) ==
  LET cells == IF ENABLE_BALANCING THEN b.number_of_cells ELSE NUM_SERIES
      c1 == RecordEnvelope(Set_Charge_Voltage(c, bus, cells), env)
      c2 == Set_Charge_Current(c1, bus, charging_current_ma)
      c3 == Regulator_HI_Z(c2, 0)
  IN IF c3.reg.vbat_voltage > BATTERY_DISCONNECT_THRESH * b.number_of_cells
       THEN [ c |-> Regulator_HI_Z(c3, 1), pc |-> "probe_delay" ]
       ELSE Terminate(c3, b)

\* Lines 545-547: [c, pc].
DisableOutputMutKeepVoltage(c, bus) ==
  LET c1 == Regulator_HI_Z([ c EXCEPT !.obs.qual = 0 ], 1)
      c3 == Set_Charge_Current(c1, bus, 0)
  IN [ c |-> c3, pc |-> "loop_delay" ]

DisableOutput(c, bus) ==
  LET c1 == Regulator_HI_Z([ c EXCEPT !.obs.qual = 0 ], 1)
      c2 == Set_Charge_Voltage(c1, bus, 0)
      c3 == Set_Charge_Current(c2, bus, 0)
  IN [ c |-> c3, pc |-> "loop_delay" ]

\* The gate as Control_Charger_Output evaluates it on what it reads.
GatePasses(c, b, pdv) ==
  OutputGate(b.xt60_connected,
             IF ENABLE_BALANCING THEN b.balance_port_connected ELSE CONNECTED,
             c.err, pdv.ready, b.cell_over_voltage)

\* Lines 582-592: charge-okay pin, then the bus-liveness check.
InputPowerGatingMutClearAll(c, chrg_ok) ==
  LET err1 == IF chrg_ok # 1 THEN Set_Error_State(c.err, VOLTAGE_INPUT_ERROR)
              ELSE IF VOLTAGE_INPUT_ERROR \in c.err THEN {}
              ELSE c.err
  IN [ c EXCEPT !.err = err1,
                !.reg.connected = IF REGULATOR_COMMUNICATION_ERROR \in err1 THEN 0 ELSE @ ]

InputPowerGating(c, chrg_ok) ==
  LET err1 == IF chrg_ok # 1 THEN Set_Error_State(c.err, VOLTAGE_INPUT_ERROR)
              ELSE IF VOLTAGE_INPUT_ERROR \in c.err
                THEN Clear_Error_State(c.err, VOLTAGE_INPUT_ERROR)
              ELSE c.err
  IN [ c EXCEPT !.err = err1,
                !.reg.connected = IF REGULATOR_COMMUNICATION_ERROR \in err1 THEN 0 ELSE @ ]

\* The condition of the precharge loop (line 603): 3.1 V per cell.
UvpCond(c) ==
  ATTEMPT_UVP_RECOVERY /\ c.pt > 1 /\ c.reg.vbat_voltage * 10 < NUM_SERIES * 31 * REG_ADC_MULTIPLIER

\* Lines 604-612.
BeginAttempt(c) ==
  [ c EXCEPT !.pre = 1,
             !.ticks = IF c.ipw = 1 THEN WAKEUP_TICKS ELSE PRECHARGE_TICKS,
             !.ipw = 0,
             !.obs.attempts = @ + 1 ]

\* Lines 615-619, up to the suspension inside Regulator_Read_ADC.
TickBodyMutNoCurrent(c, bus, status) ==
  Read_Charge_Status(Regulator_HI_Z(Set_Charge_Voltage(c, bus, NUM_SERIES), 0), bus, status)

TickBody(c, bus, status) ==
  LET c1 == Set_Charge_Voltage(c, bus, NUM_SERIES)
      c2 == Set_Charge_Current(c1, bus, UVP_RECOVERY_CURRENT_MA)
      c3 == Regulator_HI_Z(c2, 0)
  IN Read_Charge_Status(c3, bus, status)

\* Lines 632-637.
ExitUvpMutNoHiZ(c) == [ c EXCEPT !.pre = 0, !.pt = 0, !.ticks = SETTLE_TICKS ]

ExitUvp(c) ==
  Regulator_HI_Z([ c EXCEPT !.pre = 0, !.pt = 0, !.ticks = SETTLE_TICKS ], 1)

(***************************************************************************)
(* Inputs.  The analog sampler, the USB-PD stack and the regulator's       *)
(* answers are collaborators: their values are drawn from the sets below.  *)
(***************************************************************************)

\* A sample set with the taps a series ladder gives.
Sample(c0, c1, c2, c3, batt, temp) ==
  [ cell |-> << c0, c1, c2, c3 >>, two_s |-> c0 + c1, three_s |-> c0 + c1 + c2,
    four_s |-> c0 + c1 + c2 + c3, batt |-> batt, temp |-> temp ]

\* Two-task runs: whole-pack scenarios.
PackScenarios ==
  { Sample(0, 0, 0, 0, 0, 25),                  \* nothing connected
    Sample(3900, 3900, 3900, 3900, 15600, 25),  \* 4S pack, wants charge
    Sample(3900, 3900, 3900, 3900, 15600, 75),  \* the same, controller hot
    Sample(4250, 3900, 3900, 3900, 15950, 25) } \* one cell over voltage

PdStates ==
  { [ ready |-> NOT_READY, max_i |-> 0, max_p |-> 0 ],
    [ ready |-> READY, max_i |-> 3000, max_p |-> 60000 ] }

\* What one ADC conversion of the regulator returns.
Reading(vbat_raw, ichg_raw, vbus_raw) ==
  [ vbat |-> vbat_raw, ichg |-> ichg_raw, vbus |-> vbus_raw ]

RegReadings ==
  { Reading(0, 10, 255),     \* VBAT 2.88 V: under the recovery threshold
    Reading(200, 10, 255),   \* VBAT 15.68 V, charging at 640 mA
    Reading(220, 10, 255) }  \* VBAT 16.96 V: over the disconnect threshold of 4 cells

\* The inputs of the two-task runs: the measured charge current stays over
\* CHARGE_TERM_CURRENT_MA.
MainInputs ==
  [ samples |-> PackScenarios, readings |-> RegReadings, temps |-> { 25 },
    packv |-> { 0, 16000 }, bus |-> BusOutcome, status |-> { 0, 1 },
    chrg_ok |-> { 0, 1 }, idok |-> BOOLEAN ]

\* The inputs of the termination runs: a full pack, and a charge current that
\* may read under CHARGE_TERM_CURRENT_MA; VBAT never reads under the recovery
\* threshold.
TermScenarios ==
  { Sample(0, 0, 0, 0, 0, 25),
    Sample(4190, 4190, 4190, 4190, 16760, 25) }

TermReadings ==
  { Reading(200, 10, 255),   \* charging at 640 mA
    Reading(200, 1, 255),    \* 64 mA: under the termination current
    Reading(220, 1, 255) }   \* the same, VBAT over the disconnect threshold

TermInputs ==
  [ samples |-> TermScenarios, readings |-> TermReadings, temps |-> { 25 },
    packv |-> { 16000 }, bus |-> { "ok" }, status |-> { 0 },
    chrg_ok |-> { 0, 1 }, idok |-> { TRUE } ]

\* No bus call is in progress.  caller: the driver function that runs; fn:
\* I2C_Transfer or I2C_Receive; at: the position in it; elapsed: ticks since
\* xtimeout_start; started: the call has started a DMA transfer; msb: bit 6
\* of ADC_msb_3B in Regulator_Read_ADC.
XferIdle ==
  [ caller |-> "none", fn |-> "transfer", at |-> "idle", elapsed |-> 0,
    started |-> FALSE, msb |-> 0 ]

\* obs: env, the last result of Calculate_Max_Charge_Power; qual, the number
\* of consecutive iterations (up to 4) that met the termination condition;
\* attempts, the number of precharge attempts begun; ev, the events since the
\* last read of the charge status.
ObsInit ==
  [ env |-> [ undamped |-> 0, scalar |-> PowerScalarDen, temp |-> 0, power |-> 0 ],
    qual |-> 0,
    attempts |-> 0,
    ev |-> << >> ]

Init ==
  /\ adc = Sample(0, 0, 0, 0, 0, 25)
  /\ battery_state =
       [ xt60_connected |-> 0, balance_port_connected |-> 0, number_of_cells |-> 0,
         balancing_enabled |-> 0, requires_charging |-> 0, cell_over_voltage |-> 0,
         cell_balance_bitmask |-> {} ]
  /\ cell_connected_bitmask = {}
  /\ error_state = {}
  /\ dis_gpio = {}
  /\ toggles = 0
  /\ pd = [ ready |-> NOT_READY, max_i |-> 0, max_p |-> 0 ]
  /\ regulator =
       [ connected |-> 0, charging_status |-> 0, vbus_voltage |-> 0, vbat_voltage |-> 0,
         charge_current |-> 0, max_charge_current_ma |-> 0 ]
  /\ precharging_state = 0
  /\ hi_z = 1
  /\ chg = [ max_charge_mv |-> 0, min_system_mv |-> 0, current_steps |-> 0,
             current_register_1 |-> 0, current_register_2 |-> 0 ]
  /\ termination_counter = 0
  /\ precharge_timeout = N_UVP_ATTEMPTS
  /\ initial_precharge_wakeup = 1
  /\ ticks = 0
  /\ pc = "start"
  /\ obs = ObsInit
  /\ request = 0
  /\ lease = {}
  /\ hal = [ state |-> "READY", error |-> "NONE" ]
  /\ xfer = XferIdle

(***************************************************************************)
(* The Battery Monitor task: one call of Battery_Connection_State.         *)
(***************************************************************************)
\* How often a variable holding `was` changes value under the stores.
RECURSIVE Changes(_, _)
Changes(was, stores) ==
  IF stores = << >> THEN 0
  ELSE (IF Head(stores) # was THEN 1 ELSE 0) + Changes(Head(stores), Tail(stores))

MonitorIteration(a) ==
  LET r == Battery_Connection_State(a, battery_state, cell_connected_bitmask,
                                    error_state, dis_gpio, regulator.charging_status)
  IN /\ adc' = a
     /\ battery_state' = r.b
     /\ cell_connected_bitmask' = r.mask
     /\ error_state' = r.err
     /\ dis_gpio' = r.gpio
     /\ toggles' = Changes(battery_state.balancing_enabled, r.stores)
     /\ UNCHANGED << ctlVars, pd, busVars >>

BatteryMonitor(In) == \E a \in In.samples : MonitorIteration(a)

\* The USB-PD stack renegotiates.
PdChange ==
  /\ pd' \in PdStates \ { pd }
  /\ UNCHANGED << monVars, ctlVars, error_state, busVars >>

(***************************************************************************)
(* The Regulator Controller task: vRegulator, one action per stretch of    *)
(* code between two suspension points.  In holds the sets the inputs are   *)
(* drawn from.                                                             *)
(***************************************************************************)
Ctl ==
  [ err |-> error_state, reg |-> regulator, pre |-> precharging_state, hi_z |-> hi_z,
    chg |-> chg, tc |-> termination_counter, pt |-> precharge_timeout,
    ipw |-> initial_precharge_wakeup, ticks |-> ticks, obs |-> obs, req |-> request ]

Commit(c, next_pc) ==
  /\ error_state' = c.err
  /\ regulator' = c.reg
  /\ precharging_state' = c.pre
  /\ hi_z' = c.hi_z
  /\ chg' = c.chg
  /\ termination_counter' = c.tc
  /\ precharge_timeout' = c.pt
  /\ initial_precharge_wakeup' = c.ipw
  /\ ticks' = c.ticks
  /\ obs' = c.obs
  /\ request' = c.req
  /\ pc' = next_pc
  /\ UNCHANGED << monVars, pd, busVars >>

\* Lines 563-577.
Startup(In) ==
  /\ pc = "start"
  /\ \E bus \in In.bus, idok \in In.idok :
       LET c1 == Regulator_HI_Z(Ctl, 1)
           c2 == Query_Regulator_Connection(c1, "ok", idok)
           c3 == I2C_Transfer(c2, bus)
       IN Commit(c3, "boot_delay")

\* Lines 582-594 and the start of Regulator_Read_ADC (lines 274-282).
IterationTop(In) ==
  /\ pc \in { "boot_delay", "loop_delay" }
  /\ \E chrg_ok \in In.chrg_ok, bus \in In.bus, status \in In.status :
       LET c1 == InputPowerGating(Ctl, chrg_ok)
           c2 == Read_Charge_Status(c1, bus, status)
       IN Commit(c2, "adc_main")

\* Lines 281-284: the start-conversion bit still reads as set, or the read
\* of it failed and left ADC_msb_3B as it was.
AdcPending(In) ==
  /\ pc \in { "adc_main", "adc_uvp", "adc_settle" }
  /\ \E bus \in In.bus : Commit(I2C_Transfer(Ctl, bus), pc)

\* Lines 660-677: the main control step, to its first suspension point.
RunControl(c, In) ==
  IF GatePasses(c, battery_state, pd)
    THEN \E temperature \in In.temps, battery_voltage \in In.packv, bus \in In.bus :
           LET env == Calculate_Max_Charge_Power(c.reg.vbus_voltage, pd.max_i, pd.max_p,
                                                 temperature)
           IN \E ma \in ChargingCurrents(env.power, battery_voltage) :
                LET r == EnableOutput(c, battery_state, env, ma, bus)
                IN Commit(r.c, r.pc)
    ELSE \E bus \in In.bus :
           LET r == DisableOutput(c, bus)
           IN Commit(r.c, r.pc)

\* Lines 603-649 from the test of the precharge loop on.
UvpOrControl(c, In) ==
  IF UvpCond(c)
    THEN \E bus \in In.bus, status \in In.status :
           Commit(TickBody(BeginAttempt(c), bus, status), "adc_uvp")
  ELSE IF ATTEMPT_UVP_RECOVERY /\ c.pt # 0
    THEN Commit(ExitUvp(c), "settle_delay")
  ELSE RunControl(c, In)

\* Regulator_Read_ADC of line 596 completes; lines 598 on follow.
AdcDoneMain(In) ==
  /\ pc = "adc_main"
  /\ \E bus \in In.bus, r \in In.readings :
       UvpOrControl(ReadSamples(Ctl, bus, r.vbat, r.ichg, r.vbus), In)

\* Regulator_Read_ADC of line 619 completes; vTaskDelay of line 621.
AdcDoneUvp(In) ==
  /\ pc = "adc_uvp"
  /\ \E bus \in In.bus, r \in In.readings :
       Commit(ReadSamples(Ctl, bus, r.vbat, r.ichg, r.vbus), "uvp_delay")

\* Lines 622-630: ticks--, and either the next tick or the end of the attempt.
UvpTickEnd(In) ==
  /\ pc = "uvp_delay"
  /\ IF ticks > 1
       THEN \E bus \in In.bus, status \in In.status :
              Commit(TickBody([ Ctl EXCEPT !.ticks = @ - 1 ], bus, status), "adc_uvp")
       ELSE UvpOrControl([ Ctl EXCEPT !.ticks = 0, !.pt = @ - 1 ], In)

\* Lines 640-642: one settle tick, to the suspension inside Regulator_Read_ADC.
SettleTick(In) ==
  /\ pc = "settle_delay"
  /\ \E bus \in In.bus, status \in In.status :
       Commit(Read_Charge_Status(Ctl, bus, status), "adc_settle")

\* Lines 642-643, then the next settle tick or the main control step.
AdcDoneSettle(In) ==
  /\ pc = "adc_settle"
  /\ \E bus \in In.bus, r \in In.readings :
       LET c1 == [ ReadSamples(Ctl, bus, r.vbat, r.ichg, r.vbus) EXCEPT !.ticks = @ - 1 ]
       IN IF c1.ticks > 0 THEN Commit(c1, "settle_delay") ELSE RunControl(c1, In)

\* Lines 513-526: the spurious-disconnect probe ends.
ProbeEnd ==
  /\ pc = "probe_delay"
  /\ LET r == Terminate(Regulator_HI_Z(Ctl, 0), battery_state)
     IN Commit(r.c, r.pc)

\* Line 522 returns: the iteration reaches the loop-bottom delay.
TermEnd ==
  /\ pc = "term_delay"
  /\ Commit(Ctl, "loop_delay")

\* The two tasks and the USB-PD stack, interleaved at the suspension points.
\* Line 522 is out of reach of MainInputs.
Next ==
  \/ BatteryMonitor(MainInputs)
  \/ PdChange
  \/ Startup(MainInputs)
  \/ IterationTop(MainInputs)
  \/ AdcPending(MainInputs)
  \/ AdcDoneMain(MainInputs)
  \/ AdcDoneUvp(MainInputs)
  \/ UvpTickEnd(MainInputs)
  \/ SettleTick(MainInputs)
  \/ AdcDoneSettle(MainInputs)
  \/ ProbeEnd

Spec == Init /\ [][Next]_vars

\* The same with TermInputs: the precharge loop is out of reach.
NextTerm ==
  \/ BatteryMonitor(TermInputs)
  \/ PdChange
  \/ Startup(TermInputs)
  \/ IterationTop(TermInputs)
  \/ AdcPending(TermInputs)
  \/ AdcDoneMain(TermInputs)
  \/ SettleTick(TermInputs)
  \/ AdcDoneSettle(TermInputs)
  \/ ProbeEnd
  \/ TermEnd

SpecTerm == Init /\ [][NextTerm]_vars

\* The inputs of the recovery runs: VBAT under or over the recovery threshold.
UvpInputs ==
  [ samples |-> { Sample(0, 0, 0, 0, 0, 25),
                  Sample(3900, 3900, 3900, 3900, 15600, 25) },
    readings |-> { Reading(0, 10, 255), Reading(200, 10, 255) },
    temps |-> { 25 }, packv |-> { 16000 }, bus |-> BusOutcome, status |-> { 0 },
    chrg_ok |-> { 0, 1 }, idok |-> BOOLEAN ]

NextUvp ==
  \/ BatteryMonitor(UvpInputs)
  \/ PdChange
  \/ Startup(UvpInputs)
  \/ IterationTop(UvpInputs)
  \/ AdcPending(UvpInputs)
  \/ AdcDoneMain(UvpInputs)
  \/ AdcDoneUvp(UvpInputs)
  \/ UvpTickEnd(UvpInputs)
  \/ SettleTick(UvpInputs)
  \/ AdcDoneSettle(UvpInputs)

\* The steps by which the Controller moves on: the scheduler resumes it when
\* a delay has run out, and a conversion of the regulator's ADC completes.
ControllerProgress(In) ==
  \/ Startup(In)
  \/ IterationTop(In)
  \/ AdcDoneMain(In)
  \/ AdcDoneUvp(In)
  \/ UvpTickEnd(In)
  \/ SettleTick(In)
  \/ AdcDoneSettle(In)

SpecUvp == Init /\ [][NextUvp]_vars /\ WF_vars(ControllerProgress(UvpInputs))

(***************************************************************************)
(* Packs of three and of four cells: the two tasks with a working bus and  *)
(* input power that stays good.                                            *)
(***************************************************************************)
\* No pack, a 4S pack, and a 3S pack at 11.1 V; the regulator reads VBAT as
\* 11.136 V, under the recovery threshold of NUM_SERIES cells, or as 15.68 V.
CellsInputs ==
  [ samples |-> { Sample(0, 0, 0, 0, 0, 25),
                  Sample(3900, 3900, 3900, 3900, 15600, 25),
                  Sample(3700, 3700, 3700, 0, 11100, 25) },
    readings |-> { Reading(129, 10, 255), Reading(200, 10, 255) },
    temps |-> { 25 }, packv |-> { 11100 }, bus |-> { "ok" }, status |-> { 0 },
    chrg_ok |-> { 1 }, idok |-> { TRUE } ]

NextCells ==
  \/ BatteryMonitor(CellsInputs)
  \/ PdChange
  \/ Startup(CellsInputs)
  \/ IterationTop(CellsInputs)
  \/ AdcPending(CellsInputs)
  \/ AdcDoneMain(CellsInputs)
  \/ AdcDoneUvp(CellsInputs)
  \/ UvpTickEnd(CellsInputs)
  \/ SettleTick(CellsInputs)
  \/ AdcDoneSettle(CellsInputs)
  \/ ProbeEnd

SpecCells == Init /\ [][NextCells]_vars

(***************************************************************************)
(* Set_Charge_Current on its own, over a range of requested currents.      *)
(***************************************************************************)
MaxRequestMa == 640

\* The low range, the currents around MAX_CHARGE_CURRENT_MA, the end of the
\* register's range, and a large value that stands for those up to
\* UINT32_MAX.
Requests ==
  (0..MaxRequestMa)
    \cup ((MAX_CHARGE_CURRENT_MA - 64)..(MAX_CHARGE_CURRENT_MA + 64))
    \cup { 8191, 8192, 8256, 2147483647 }

\* Line 505, after the reads of lines 594-596.
SetChargeCurrent ==
  \E ma \in Requests :
    LET c == ReadSamples(Read_Charge_Status(Ctl, "ok", 0), "ok", 200, 10, 255)
    IN Commit([ Set_Charge_Current(c, "ok", ma) EXCEPT !.req = ma ], pc)

NextCurrent == SetChargeCurrent

SpecCurrent == Init /\ [][NextCurrent]_vars

(***************************************************************************)
(* The Battery Monitor on its own, over samples chosen around its          *)
(* thresholds; the regulator's charging status changes between iterations. *)
(***************************************************************************)

\* Every combination of absent and present cells, the taps following the
\* cells, and a full ladder with one tap reading low.
LadderSamples ==
  { Sample(c0, c1, c2, c3, 0, 25) : c0 \in { 0, 3700 }, c1 \in { 0, 3700 },
                                    c2 \in { 0, 3700 }, c3 \in { 0, 3700 } }
    \cup { [ Sample(3700, 3700, 3700, 3700, 0, 25) EXCEPT !.two_s = 0 ],
           [ Sample(3700, 3700, 3700, 3700, 0, 25) EXCEPT !.three_s = 0 ],
           [ Sample(3700, 3700, 3700, 3700, 0, 25) EXCEPT !.four_s = 0 ] }

\* 2S and 3S packs with cells at, just above and well above
\* MIN_CELL_V_FOR_BALANCING, with and without the main lead.
BalanceSamples ==
  { Sample(c0, c1, c2, 0, batt, 25) : c0 \in { 2400, 3000, 3005, 3020, 3200 },
                                      c1 \in { 3000, 3005, 3020 },
                                      c2 \in { 0, 3020 },
                                      batt \in { 0, 9000 } }
    \cup { Sample(3005, 3020, 0, 0, 0, 75) }

\* A 2S pack with the controller's temperature at and next to
\* MCU_TEMP_C_RECOVERY and MAX_MCU_TEMP_C_FOR_OPERATION.
TempSamples ==
  { Sample(3005, 3020, 0, 0, 0, temp) : temp \in { 59, 60, 70, 71 } }

MonInputs ==
  [ samples |-> LadderSamples \cup BalanceSamples \cup TempSamples,
    status |-> { 0, 1 } ]

\* Read_Charge_Status as the Battery Monitor sees it: the charging status
\* it reads through Get_Regulator_Charging_State changes.
ChargeStatusRead(In) ==
  \E status \in In.status :
    Commit(Read_Charge_Status(Ctl, "ok", status), pc)

NextMon ==
  \/ BatteryMonitor(MonInputs)
  \/ ChargeStatusRead(MonInputs)

SpecMon == Init /\ [][NextMon]_vars

(***************************************************************************)
(* Lines 503-505 on their own, after the reads of lines 594-596: the       *)
(* charge-power envelope, the conversion to a current and                  *)
(* Set_Charge_Current, over a grid of inputs.                              *)
(***************************************************************************)
EnvelopeInputs ==
  [ vbus |-> { 0, 91, 255 },               \* 3.2 V, 9.0 V, 19.5 V
    max_i |-> { 0, 3000, 5000 },
    max_p |-> { 15000, 60000, 100000 },
    temps |-> { 0, 40, 41, 49, 50, 55, 79, 80, 90 },
    packv |-> { 0, 7400, 16000 } ]

ChargeFromEnvelope(In) ==
  \E vbus_raw \in In.vbus, max_i \in In.max_i, max_p \in In.max_p,
     temperature \in In.temps, battery_voltage \in In.packv :
    LET c == ReadSamples(Read_Charge_Status(Ctl, "ok", 0), "ok", 200, 10, vbus_raw)
        env == Calculate_Max_Charge_Power(c.reg.vbus_voltage, max_i, max_p, temperature)
    IN \E ma \in ChargingCurrents(env.power, battery_voltage) :
         Commit(Set_Charge_Current(RecordEnvelope(c, env), "ok", ma), pc)

NextEnvelope == ChargeFromEnvelope(EnvelopeInputs)

SpecEnvelope == Init /\ [][NextEnvelope]_vars

(***************************************************************************)
(* The bus after a failed identification: the IDs read at startup may not  *)
(* match, and every transfer of the loop succeeds.                         *)
(***************************************************************************)
RecoverInputs ==
  [ samples |-> { Sample(0, 0, 0, 0, 0, 25),
                  Sample(3900, 3900, 3900, 3900, 15600, 25) },
    readings |-> { Reading(0, 10, 255), Reading(200, 10, 255) },
    temps |-> { 25 }, packv |-> { 16000 }, bus |-> { "ok" }, status |-> { 0 },
    chrg_ok |-> { 0, 1 }, idok |-> BOOLEAN ]

NextRecover ==
  \/ BatteryMonitor(RecoverInputs)
  \/ PdChange
  \/ Startup(RecoverInputs)
  \/ IterationTop(RecoverInputs)
  \/ AdcPending(RecoverInputs)
  \/ AdcDoneMain(RecoverInputs)
  \/ AdcDoneUvp(RecoverInputs)
  \/ UvpTickEnd(RecoverInputs)
  \/ SettleTick(RecoverInputs)
  \/ AdcDoneSettle(RecoverInputs)

SpecRecover ==
  Init /\ [][NextRecover]_vars /\ WF_vars(ControllerProgress(RecoverInputs))

(***************************************************************************)
(* Both tasks with every fault in reach: a ladder with a gap, a cell under *)
(* the safe limit, a hot controller, a bad charge-okay pin, bus timeouts.  *)
(***************************************************************************)
FaultScenarios ==
  { Sample(0, 0, 0, 0, 0, 25),
    Sample(3900, 3900, 3900, 3900, 15600, 25),
    Sample(3900, 3900, 3900, 3900, 15600, 75),
    Sample(3700, 0, 3700, 3700, 11100, 25),
    Sample(2400, 3900, 3900, 3900, 14100, 65) }

FaultInputs ==
  [ samples |-> FaultScenarios,
    readings |-> { Reading(0, 10, 255), Reading(200, 10, 255) },
    temps |-> { 25 }, packv |-> { 16000 }, bus |-> BusOutcome, status |-> { 0 },
    chrg_ok |-> { 0, 1 }, idok |-> BOOLEAN ]

\* The steps of the Regulator Controller.
ControllerActs(In) ==
  \/ Startup(In)
  \/ IterationTop(In)
  \/ AdcPending(In)
  \/ AdcDoneMain(In)
  \/ AdcDoneUvp(In)
  \/ UvpTickEnd(In)
  \/ SettleTick(In)
  \/ AdcDoneSettle(In)

NextFaults ==
  \/ BatteryMonitor(FaultInputs)
  \/ PdChange
  \/ Startup(FaultInputs)
  \/ IterationTop(FaultInputs)
  \/ AdcPending(FaultInputs)
  \/ AdcDoneMain(FaultInputs)
  \/ AdcDoneUvp(FaultInputs)
  \/ UvpTickEnd(FaultInputs)
  \/ SettleTick(FaultInputs)
  \/ AdcDoneSettle(FaultInputs)

SpecFaults == Init /\ [][NextFaults]_vars

(***************************************************************************)
(* I2C_Transfer and I2C_Receive step by step.  The operator I2C_Transfer   *)
(* above sums a call up by its outcome; the actions below unfold one call: *)
(* the mutex, the two waiting loops with their timeout, the retry on an    *)
(* acknowledge failure, and the poll loop of Regulator_Read_ADC around it. *)
(* The mutex, the HAL and the other users of the mutex are not part of the *)
(* sources at hand: a take succeeds on a free mutex only, a DMA transfer   *)
(* starts on a READY peripheral only and completes with or without an      *)
(* acknowledge failure, or never.                                          *)
(***************************************************************************)

\* Scaled stand-in for I2C_TIMEOUT.
I2C_TIMEOUT_TICKS == 2

\* xSemaphoreTake succeeds on a free mutex.
LeaseFree(l) == l = {}

\* xSemaphoreGive of lines 147 and 175.
GiveLeaseMutKeep(l) == l

GiveLease(l) == l \ { "controller" }

\* The driver function goes on after I2C_Transfer or I2C_Receive returned:
\* I2C_Read_Register calls I2C_Receive after I2C_Transfer (lines 210-211);
\* Regulator_Read_ADC waits 80 ms and reads the register again while bit 6
\* of ADC_msb_3B is set (lines 278-284).
Return(x) ==
  LET y == [ x EXCEPT !.elapsed = 0, !.started = FALSE ]
  IN CASE x.caller \in { "read", "adc_poll" } /\ x.fn = "transfer"
            -> [ y EXCEPT !.fn = "receive", !.at = "take" ]
       [] x.caller = "adc_write"
            -> [ y EXCEPT !.caller = "adc_poll", !.at = "delay" ]
       [] x.caller = "adc_poll" /\ x.fn = "receive" /\ x.msb = 1
            -> [ y EXCEPT !.fn = "transfer", !.at = "delay" ]
       [] OTHER -> XferIdle

BusCommit(x, l, h, err) ==
  /\ xfer' = x
  /\ lease' = l
  /\ hal' = h
  /\ error_state' = err
  /\ UNCHANGED << monVars, ctlVars, pd >>

\* A driver function begins: I2C_Write_Register, I2C_Read_Register, or
\* Regulator_Read_ADC with its write of the start-conversion bit (276-278).
BusCall(In) ==
  /\ xfer.at = "idle"
  /\ \E op \in In.ops :
       BusCommit([ XferIdle EXCEPT !.caller = op, !.at = "take",
                                   !.msb = IF op = "adc_write" THEN 1 ELSE 0 ],
                 lease, hal, error_state)

\* Lines 129 and 157: the mutex is free and is taken.
LeaseTake ==
  /\ xfer.at = "take"
  /\ LeaseFree(lease)
  /\ BusCommit([ xfer EXCEPT !.at = "start", !.elapsed = 0 ],
               lease \cup { "controller" }, hal, error_state)

\* Lines 129 and 157: cmdMAX_MUTEX_WAIT runs out; the body of the if is
\* skipped and the function returns.
LeaseTimeout ==
  /\ xfer.at = "take"
  /\ ~LeaseFree(lease)
  /\ BusCommit(Return(xfer), lease, hal, error_state)

\* One round of the loop of lines 133-138 (161-166).
TransmitStart ==
  /\ xfer.at = "start"
  /\ IF hal.state = "READY"
       THEN BusCommit([ xfer EXCEPT !.at = "wait", !.started = TRUE ], lease,
                      [ state |-> "BUSY", error |-> "NONE" ], error_state)
     ELSE IF xfer.elapsed > I2C_TIMEOUT_TICKS
       THEN BusCommit([ xfer EXCEPT !.at = "wait" ], lease, hal,
                      Set_Error_State(error_state, REGULATOR_COMMUNICATION_ERROR))
     ELSE BusCommit([ xfer EXCEPT !.elapsed = @ + 1 ], lease, hal, error_state)

\* One round of the loop of lines 139-144 (167-172).
WaitReady ==
  /\ xfer.at = "wait"
  /\ IF hal.state = "READY"
       THEN BusCommit([ xfer EXCEPT !.at = "check" ], lease, hal, error_state)
     ELSE IF xfer.elapsed > I2C_TIMEOUT_TICKS
       THEN BusCommit([ xfer EXCEPT !.at = "check" ], lease, hal,
                      Set_Error_State(error_state, REGULATOR_COMMUNICATION_ERROR))
     ELSE BusCommit([ xfer EXCEPT !.elapsed = @ + 1 ], lease, hal, error_state)

\* Lines 146-147 (174-175): again from line 132 on an acknowledge failure,
\* else the mutex is given back and the function returns.
CheckAck ==
  /\ xfer.at = "check"
  /\ IF hal.error = "AF"
       THEN BusCommit([ xfer EXCEPT !.at = "start", !.elapsed = 0 ], lease, hal,
                      error_state)
       ELSE BusCommit(Return(xfer), GiveLease(lease), hal, error_state)

\* Line 282 has run out: line 283 reads the register.
PollDelayEnd ==
  /\ xfer.at = "delay"
  /\ BusCommit([ xfer EXCEPT !.at = "take" ], lease, hal, error_state)

\* The DMA transfer completes, acknowledged or not; a completed read of the
\* ADC option register brings the start-conversion bit as the regulator has it.
HalComplete(In) ==
  /\ hal.state = "BUSY"
  /\ \E ack \in In.acks, bit \in In.bits :
       BusCommit(IF /\ xfer.caller = "adc_poll" /\ xfer.fn = "receive"
                    /\ xfer.at = "wait" /\ xfer.started /\ ack = "NONE"
                   THEN [ xfer EXCEPT !.msb = bit ]
                   ELSE xfer,
                 lease, [ state |-> "READY", error |-> ack ], error_state)

\* Another user of the mutex takes it and gives it back.
OtherTake ==
  /\ LeaseFree(lease)
  /\ BusCommit(xfer, lease \cup { "other" }, hal, error_state)

OtherGive ==
  /\ "other" \in lease
  /\ BusCommit(xfer, lease \ { "other" }, hal, error_state)

\* The steps of the task that calls the driver.
ControllerBus(In) ==
  \/ BusCall(In)
  \/ LeaseTake
  \/ LeaseTimeout
  \/ TransmitStart
  \/ WaitReady
  \/ CheckAck
  \/ PollDelayEnd

\* Any driver call, a device that may not acknowledge, a transfer that may
\* never complete.
BusInputs ==
  [ ops |-> { "write", "read", "adc_write" }, acks |-> { "NONE", "AF" },
    bits |-> { 0, 1 } ]

NextBus ==
  \/ BusCall(BusInputs)
  \/ LeaseTake
  \/ LeaseTimeout
  \/ TransmitStart
  \/ WaitReady
  \/ CheckAck
  \/ PollDelayEnd
  \/ HalComplete(BusInputs)
  \/ OtherTake
  \/ OtherGive

SpecBus == Init /\ [][NextBus]_vars /\ WF_vars(ControllerBus(BusInputs))

\* Regulator_Read_ADC on a bus whose device acknowledges and whose
\* transfers complete: every call of I2C_Transfer and I2C_Receive returns.
AdcInputs ==
  [ ops |-> { "adc_write" }, acks |-> { "NONE" }, bits |-> { 0, 1 } ]

NextAdc ==
  \/ BusCall(AdcInputs)
  \/ LeaseTake
  \/ LeaseTimeout
  \/ TransmitStart
  \/ WaitReady
  \/ CheckAck
  \/ PollDelayEnd
  \/ HalComplete(AdcInputs)
  \/ OtherTake
  \/ OtherGive

SpecAdc ==
  /\ Init
  /\ [][NextAdc]_vars
  /\ WF_vars(ControllerBus(AdcInputs))
  /\ WF_vars(HalComplete(AdcInputs))

(***************************************************************************)
(* Properties.                                                             *)
(***************************************************************************)

\* A Battery Monitor iteration: the Controller and the USB-PD stack stand still.
MonitorStep == UNCHANGED << ctlVars, pd, busVars >>

\* Some bit of the mask is set while a lower bit is clear.
HasGap(mask) == \E k \in mask : \E j \in 0..(k - 1) : j \notin mask

\* C4: after the ladder probe and the cell-count inference, a ladder bitmask
\* with a gap gives number_of_cells = 0 with CELL_CONNECTION_ERROR set; the
\* prefixes 0b0011, 0b0111 and 0b1111 give 2, 3 and 4 cells with the error
\* cleared; number_of_cells is one of 0, 2, 3, 4; and balance_port_connected
\* holds exactly when number_of_cells > 1.
C4_CellCountInference ==
  /\ cell_connected_bitmask = LadderBitmask(adc)
  /\ HasGap(cell_connected_bitmask)
       => /\ battery_state.number_of_cells = 0
          /\ CELL_CONNECTION_ERROR \in error_state
  /\ \A n \in { 2, 3, 4 } :
       cell_connected_bitmask = 0..(n - 1)
         => /\ battery_state.number_of_cells = n
            /\ CELL_CONNECTION_ERROR \notin error_state
  /\ battery_state.number_of_cells \in { 0, 2, 3, 4 }
  /\ (battery_state.balance_port_connected = CONNECTED)
       <=> (battery_state.number_of_cells > 1)

\* Cells 0 and 3 answer, cells 1 and 2 do not: no pack, and the error is set.
C4_GapSeen ==
  /\ cell_connected_bitmask = { 0, 3 }
  /\ battery_state.number_of_cells = 0
  /\ battery_state.balance_port_connected = NOT_CONNECTED
  /\ CELL_CONNECTION_ERROR \in error_state

\* The ON -> OFF condition of the balancing latch with the floor included,
\* on samples a and the pack state b of the same iteration.
OffConditionWithFloor(a, b) ==
  LET vmin == MinCellVoltage(a, b.number_of_cells)
      vmax == MaxCellVoltage(a, b.number_of_cells)
      num == ScalarNum(b.xt60_connected, vmax)
  IN \/ ~AtLeastScaled(vmax - vmin, CELL_BALANCING_HYSTERESIS_V, num)
     \/ vmin <= MIN_CELL_V_FOR_BALANCING

\* C5: in a Battery Monitor iteration that evaluates the balancing latch
\* (regulator not charging, balance port connected, no fault) with
\* balancing_enabled = 1 before it, balancing_enabled becomes 0 exactly when
\* (vmax - vmin) < CELL_BALANCING_HYSTERESIS_V * scalar or
\* vmin <= MIN_CELL_V_FOR_BALANCING; and balancing_enabled changes value at
\* most once within an iteration.
C5_OffExactlyWhen ==
  [][ MonitorStep
        => /\ toggles' <= 1
           /\ ( /\ battery_state.balancing_enabled = 1
                /\ BalanceRuns(regulator.charging_status)
                /\ BalanceGate(battery_state'.balance_port_connected, error_state') )
                => ( (battery_state'.balancing_enabled = 0)
                       <=> OffConditionWithFloor(adc', battery_state') ) ]_vars

\* C10: at the end of every Battery Monitor iteration, balancing_enabled = 1
\* implies that some active cell of the iteration's samples is above
\* MIN_CELL_V_FOR_BALANCING.
C10_EnabledAboveFloor ==
  battery_state.balancing_enabled = 1
    => \E i \in 0..(battery_state.number_of_cells - 1) :
         Get_Cell_Voltage(adc, i) > MIN_CELL_V_FOR_BALANCING

\* C3: every charge current passed to the regulator and the stored
\* max_charge_current_ma are at most MAX_CHARGE_CURRENT_MA, and the power the
\* envelope computation returns is at most MAX_CHARGING_POWER.
C3_Ceilings ==
  /\ regulator.max_charge_current_ma <= MAX_CHARGE_CURRENT_MA
  /\ chg.current_steps * 64 <= MAX_CHARGE_CURRENT_MA
  /\ obs.env.power <= MAX_CHARGING_POWER

\* Both ceilings are met: 19 V at 5 A into a 7.4 V pack.
C3_BothClamped ==
  /\ obs.env.power = MAX_CHARGING_POWER
  /\ regulator.max_charge_current_ma = MAX_CHARGE_CURRENT_MA

\* C7 as stated: from 50 degrees C on the returned power is 0; up to
\* TEMP_THROTTLE_THRESH_C the scalar applied is 1; the scalar is in [0, 1].
C7_ZeroFrom50 ==
  /\ obs.env.temp >= 50 => obs.env.power = 0
  /\ obs.env.temp <= TEMP_THROTTLE_THRESH_C => obs.env.scalar = PowerScalarDen
  /\ obs.env.scalar \in 0..PowerScalarDen

\* C7: from 80 degrees C on (1 - (0.0333 * T - 1.66) <= 0) the returned power
\* is 0; up to TEMP_THROTTLE_THRESH_C the scalar applied is 1 and the power is
\* not derated; the scalar applied is always in [0, 1].
C7_ZeroFrom80 ==
  /\ obs.env.temp >= 80 => obs.env.power = 0
  /\ obs.env.temp <= TEMP_THROTTLE_THRESH_C
       => /\ obs.env.scalar = PowerScalarDen
          /\ obs.env.power = obs.env.undamped
  /\ obs.env.scalar \in 0..PowerScalarDen

\* Power was available and the derate took all of it.
C7_DeratedToZero ==
  /\ obs.env.temp >= 80
  /\ obs.env.undamped > 0
  /\ obs.env.power = 0

\* The conditions of line 494 on the published state.
GateHolds ==
  /\ battery_state.xt60_connected = CONNECTED
  /\ battery_state.balance_port_connected = CONNECTED
  /\ error_state = {}
  /\ pd.ready = READY
  /\ battery_state.cell_over_voltage = 0

\* A Controller step that runs Control_Charger_Output from its gate.
ControlStep ==
  /\ pc \in { "adc_main", "adc_settle", "uvp_delay" }
  /\ pc' \in { "loop_delay", "probe_delay", "term_delay" }

\* C1 as stated: in every reachable state, high impedance OFF implies XT60
\* connected, balance port connected, no fault, input power ready and no
\* cell over voltage.
C1_OutputOnImpliesGate == hi_z = 0 => GateHolds

\* C1: a main control step that leaves high impedance OFF found XT60
\* connected, the balance port connected, the fault set empty, input power
\* ready and no cell over voltage when it evaluated its gate; any other step
\* that ends with high impedance OFF is a precharge tick of UVP recovery, the
\* end of the spurious-disconnect probe, or a step that found it OFF.
C1_EnabledOnlyThroughGate ==
  [][ hi_z' = 0
        => IF ControlStep
             THEN GateHolds
             ELSE hi_z = 0 \/ precharging_state' = 1 \/ pc = "probe_delay" ]_vars

\* The main control step has enabled the output of a pack that qualifies.
C1_OutputEnabled ==
  /\ pc = "loop_delay"
  /\ hi_z = 0
  /\ precharging_state = 0
  /\ regulator.max_charge_current_ma > 0
  /\ GateHolds

\* C2: when a Controller iteration reaches its loop-bottom delay with a fault
\* set, its last high-impedance command is ON and its last commanded charge
\* current is 0.
C2_FaultEndsInHiZ ==
  [][ (pc' = "loop_delay" /\ pc # "loop_delay" /\ error_state' # {})
        => (hi_z' = 1 /\ regulator'.max_charge_current_ma = 0) ]_vars

\* What C6 says of every state: at most N_UVP_ATTEMPTS attempts are begun;
\* once the loop is left precharging is false and stays false, the settle
\* ticks run in high impedance, and the main control step runs only then.
RecoveryBounded ==
  /\ obs.attempts <= N_UVP_ATTEMPTS
  /\ pc \in { "settle_delay", "adc_settle" }
       => precharging_state = 0 /\ hi_z = 1 /\ precharge_timeout = 0
  /\ precharge_timeout = 0 => precharging_state = 0
  /\ pc \in { "loop_delay", "probe_delay", "term_delay" } => precharge_timeout = 0

\* C6: whatever VBAT reads, the precharge loop begins at most N_UVP_ATTEMPTS
\* attempts and is left in the end; when it is left precharging is false and
\* high impedance is ON before the main control step runs.
C6_BoundedRecovery ==
  /\ []RecoveryBounded
  /\ <>(precharge_timeout = 0 /\ pc = "loop_delay")

\* VBAT never recovered: the loop used every attempt it has and was left.
C6_AttemptsExhausted ==
  /\ obs.attempts = N_UVP_ATTEMPTS - 1
  /\ pc = "settle_delay"
  /\ UvpCond([ Ctl EXCEPT !.pt = 2 ])

\* C9: at every suspension point of the Controller, precharging implies that
\* the last commanded charge voltage is the setpoint of NUM_SERIES cells and
\* the last commanded charge current is UVP_RECOVERY_CURRENT_MA.
C9_PrechargeSetpoints ==
  precharging_state = 1
    => /\ chg.max_charge_mv = MaxChargeVoltageMv(NUM_SERIES)
       /\ regulator.max_charge_current_ma = UVP_RECOVERY_CURRENT_MA
       /\ chg.current_steps = UVP_RECOVERY_CURRENT_MA \div 64

\* A precharge tick is waiting in its delay with the output enabled.
C9_Precharging ==
  /\ precharging_state = 1
  /\ pc = "uvp_delay"
  /\ hi_z = 0

\* C8: when the fourth of four consecutive iterations that met the
\* termination condition reaches its loop-bottom delay, high impedance is ON.
C8_FourthForcesHiZ ==
  (pc = "loop_delay" /\ obs.qual >= 4) => hi_z = 1

\* C11: once REGULATOR_COMMUNICATION_ERROR is set and the bus works again,
\* the fault is cleared in the end and regulator.connected is CONNECTED again.
C11_FaultEventuallyCleared ==
  (REGULATOR_COMMUNICATION_ERROR \in error_state)
    ~> (REGULATOR_COMMUNICATION_ERROR \notin error_state /\ regulator.connected = CONNECTED)

\* A call of I2C_Transfer or I2C_Receive returns without having had the mutex.
LeaseTimedOut ==
  /\ xfer.at = "take"
  /\ xfer' # xfer
  /\ "controller" \notin lease'

\* C12: when the mutex cannot be taken within the maximum wait, the call
\* performs no bus transfer and REGULATOR_COMMUNICATION_ERROR is set when it
\* returns.
C12_LeaseTimeoutRaisesFault ==
  [][ LeaseTimedOut
        => /\ ~xfer.started
           /\ hal' = hal
           /\ REGULATOR_COMMUNICATION_ERROR \in error_state' ]_vars

\* C13: every call of I2C_Transfer and I2C_Receive that has taken the mutex
\* returns and gives it back, whether the device acknowledges or not and
\* whether the transfer completes or not.
C13_TransferReturns ==
  ("controller" \in lease) ~> ("controller" \notin lease)

\* C19: the mutex has at most one holder, and the calling task holds it
\* neither after a call has returned nor in the delay of the poll loop.
C19_LeaseReleased ==
  /\ Cardinality(lease) <= 1
  /\ xfer.at \in { "idle", "take", "delay" } => "controller" \notin lease
  /\ "controller" \in lease => xfer.at \in { "start", "wait", "check" }

\* A transfer timed out, raised the fault and returned: the mutex is free.
C19_ReturnedAfterTimeout ==
  /\ xfer.at = "idle"
  /\ REGULATOR_COMMUNICATION_ERROR \in error_state
  /\ lease = {}
  /\ hal.state = "BUSY"

\* C14: every call of Regulator_Read_ADC leaves its poll loop, also when the
\* start-conversion bit keeps reading as set and when the reads fail.
C14_ReadAdcReturns ==
  (xfer.caller \in { "adc_write", "adc_poll" }) ~> (xfer.caller = "none")

\* The place of an event in the order C15 states.
Rank(event) ==
  CASE event = "status" -> 1
    [] event = "adc" -> 2
    [] event = "envelope" -> 3
    [] event \in { "voltage", "current" } -> 4
    [] OTHER -> 5

MonitorOwned == { CELL_CONNECTION_ERROR, CELL_VOLTAGE_ERROR, MCU_OVER_TEMP }

ControllerOwned == { REGULATOR_COMMUNICATION_ERROR, VOLTAGE_INPUT_ERROR }

\* C16: a Battery Monitor iteration leaves REGULATOR_COMMUNICATION_ERROR and
\* VOLTAGE_INPUT_ERROR as they are, a step of the Regulator Controller and
\* its driver leaves CELL_CONNECTION_ERROR, CELL_VOLTAGE_ERROR and
\* MCU_OVER_TEMP as they are, and nothing else changes a flag: a flag that is
\* set stays set until a step of its owner clears it.
C16_FaultOwnership ==
  [][ /\ BatteryMonitor(FaultInputs)
           => error_state' \cap ControllerOwned = error_state \cap ControllerOwned
      /\ ControllerActs(FaultInputs)
           => error_state' \cap MonitorOwned = error_state \cap MonitorOwned
      /\ PdChange => error_state' = error_state ]_vars

\* Flags of both owners are set while the Controller runs its loop.
C16_FlagsOfBothOwners ==
  /\ pc = "loop_delay"
  /\ { CELL_VOLTAGE_ERROR, MCU_OVER_TEMP } \subseteq error_state
  /\ ControllerOwned \subseteq error_state

\* Every active cell of samples a at or over CELL_OVER_VOLTAGE_ENABLE_DISCHARGE
\* has its bit in the balance bitmask of b and its discharge output set.
OverVoltageCellsDischarged(a, b, gpio) ==
  \A i \in 0..(b.number_of_cells - 1) :
    Get_Cell_Voltage(a, i) >= CELL_OVER_VOLTAGE_ENABLE_DISCHARGE
      => i \in b.cell_balance_bitmask /\ i \in gpio

\* C17: after every Battery Monitor iteration that ends with the balance
\* port connected and no fault set, every active cell at or over
\* CELL_OVER_VOLTAGE_ENABLE_DISCHARGE has its discharge resistor engaged,
\* whatever balancing_enabled and the regulator's charging status are.
C17_OverVoltageDischarge ==
  [][ ( /\ MonitorStep
        /\ battery_state'.balance_port_connected = CONNECTED
        /\ error_state' = {} )
        => OverVoltageCellsDischarged(adc', battery_state', dis_gpio') ]_vars

\* C18 as stated: a main control step whose gate does not hold commands high
\* impedance ON, writes zero to the minimum system voltage and to the maximum
\* charge voltage, writes a charge current of zero and sets
\* max_charge_current_ma to 0.
C18_DisableWritesZero ==
  [][ (ControlStep /\ ~GateHolds)
        => /\ hi_z' = 1
           /\ chg'.min_system_mv = 0
           /\ chg'.max_charge_mv = 0
           /\ chg'.current_steps = 0
           /\ regulator'.max_charge_current_ma = 0 ]_vars

\* C18: a main control step whose gate does not hold commands high impedance
\* ON, writes zero to the maximum charge voltage and the 1024 mV step to the
\* minimum system voltage, writes a charge current of zero, sets
\* max_charge_current_ma to 0 and goes to the loop-bottom delay.
C18_DisableCommands ==
  [][ (ControlStep /\ ~GateHolds)
        => /\ hi_z' = 1
           /\ chg'.min_system_mv = 1024
           /\ chg'.max_charge_mv = 0
           /\ chg'.current_steps = 0
           /\ regulator'.max_charge_current_ma = 0
           /\ pc' = "loop_delay" ]_vars

\* The disable path has run for a connected pack with a fault set.
C18_OutputDisabled ==
  /\ pc = "loop_delay"
  /\ obs.ev = << "status", "adc", "hiz_on", "voltage", "current" >>
  /\ battery_state.xt60_connected = CONNECTED
  /\ error_state # {}
  /\ hi_z = 1
  /\ chg = [ max_charge_mv |-> 0, min_system_mv |-> 1024, current_steps |-> 0,
             current_register_1 |-> 0, current_register_2 |-> 0 ]

\* C20: a Battery Monitor iteration that reads a temperature over
\* MAX_MCU_TEMP_C_FOR_OPERATION ends with MCU_OVER_TEMP set; one that begins
\* with MCU_OVER_TEMP set and reads a temperature of MCU_TEMP_C_RECOVERY or
\* more ends with it set; and one that clears MCU_OVER_TEMP has read a
\* temperature under MCU_TEMP_C_RECOVERY and not over
\* MAX_MCU_TEMP_C_FOR_OPERATION.
C20_TemperatureHysteresis ==
  [][ MonitorStep
        => /\ adc'.temp > MAX_MCU_TEMP_C_FOR_OPERATION => MCU_OVER_TEMP \in error_state'
           /\ (MCU_OVER_TEMP \in error_state /\ adc'.temp >= MCU_TEMP_C_RECOVERY)
                => MCU_OVER_TEMP \in error_state'
           /\ (MCU_OVER_TEMP \in error_state /\ MCU_OVER_TEMP \notin error_state')
                => /\ adc'.temp < MCU_TEMP_C_RECOVERY
                   /\ adc'.temp <= MAX_MCU_TEMP_C_FOR_OPERATION
           /\ (MCU_OVER_TEMP \notin error_state /\ MCU_OVER_TEMP \in error_state')
                => adc'.temp > MAX_MCU_TEMP_C_FOR_OPERATION ]_vars

\* The fault is held inside the band: the temperature is back at
\* MCU_TEMP_C_RECOVERY, which is not under it.
C20_HeldInBand ==
  /\ MCU_OVER_TEMP \in error_state
  /\ adc.temp = MCU_TEMP_C_RECOVERY

\* C21: when a Controller iteration that did not meet the termination
\* condition (requires_charging = 0 and measured charge current under
\* CHARGE_TERM_CURRENT_MA, with the output gate passed) is at its loop-bottom
\* delay, termination_counter is 0.
C21_CounterResetWhenNotQualifying ==
  (pc = "loop_delay" /\ obs.qual = 0) => termination_counter = 0

\* C22: a Battery Monitor iteration that ends with the balancing gate not
\* holding (a fault set, the balance port not connected, or balancing
\* compiled out) ends with balancing_enabled = 0 and every cell-discharge
\* output off, whatever the regulator's charging status is.
C22_GateOffStopsBalancing ==
  [][ (MonitorStep /\ ~BalanceGate(battery_state'.balance_port_connected, error_state'))
        => (battery_state'.balancing_enabled = 0 /\ dis_gpio' = {}) ]_vars

\* The current the regulator decodes from the two bytes of the ChargeCurrent
\* register: bits 4..0 of the upper byte are bits 6..2 of the step count,
\* bits 7..6 of the lower byte its bits 1..0.
DecodeChargeCurrent(register_1, register_2) == register_1 * 4 + register_2 \div 64

\* C23: Set_Charge_Current clamps the requested current to
\* MAX_CHARGE_CURRENT_MA, takes v = min(floor(ma / 64), 128), writes the upper
\* byte v >> 2 and the lower byte (v mod 4) << 6; the two bytes decode to v,
\* for every v of 0..128 too, and 64 * v is at most the requested current.
C23_ChargeCurrentEncoding ==
  LET ma == IF request > MAX_CHARGE_CURRENT_MA THEN MAX_CHARGE_CURRENT_MA ELSE request
      v == IF ma \div 64 < 128 THEN ma \div 64 ELSE 128
  IN /\ regulator.max_charge_current_ma = ma
     /\ chg.current_steps = v
     /\ chg.current_register_1 = v \div 4
     /\ chg.current_register_2 = (v % 4) * 64
     /\ DecodeChargeCurrent(chg.current_register_1, chg.current_register_2) = v
     /\ 64 * v <= request
     /\ \A w \in 0..128 :
          LET bytes == ChargeCurrentBytes(w)
          IN DecodeChargeCurrent(bytes.register_1, bytes.register_2) = w

\* A request over the ceiling was clamped and written: 93 steps, the low
\* bits of which are 01.
C23_ClampedAndEncoded ==
  /\ request > MAX_CHARGE_CURRENT_MA
  /\ chg.current_steps = 93
  /\ chg.current_register_1 = 23
  /\ chg.current_register_2 = 64

\* C24: after every Battery Monitor iteration no bit of cell_balance_bitmask
\* at an index of number_of_cells or more is set, and no discharge output is
\* driven for a cell outside the detected pack.
C24_NoStaleDischargeBits ==
  \A i \in 0..3 :
    i >= battery_state.number_of_cells
      => (i \notin battery_state.cell_balance_bitmask /\ i \notin dis_gpio)

\* A Controller step that commands high impedance OFF: a precharge tick of
\* UVP recovery (line 617), the end of the spurious-disconnect probe (line
\* 513), or the enable path of the main control step (line 507).
HiZOffStep ==
  \/ pc # "adc_uvp" /\ pc' = "adc_uvp"
  \/ pc = "probe_delay" /\ pc' # "probe_delay"
  \/ ControlStep /\ \E k \in DOMAIN obs'.ev : obs'.ev[k] = "hiz_off"

\* C25: whenever the Controller commands high impedance OFF, the charge
\* voltage it last commanded is the setpoint of the number of cells the
\* Battery Monitor detects at that time.
C25_SetpointOfDetectedCells ==
  [][ HiZOffStep
        => chg'.max_charge_mv = MaxChargeVoltageMv(battery_state.number_of_cells) ]_vars

\* C26: once termination_counter is over 3, every further iteration of an
\* unbroken run of iterations that pass the output gate and meet the
\* termination condition leaves the counter over 3 and high impedance ON.
C26_CounterStaysOverThreshold ==
  [][ ( /\ TerminationReached(termination_counter)
        /\ termination_counter' # termination_counter
        /\ obs'.qual >= 4 )
        => (TerminationReached(termination_counter') /\ hi_z' = 1) ]_vars

====
